---- MODULE Spec2Model ----
(***************************************************************************)
(* Model of CodingIntroJS (src/src/codingintro.js): the step-transition    *)
(* state machine of the tour controller.  One tour instance, its visual    *)
(* surface, and the continuations, timers and frame callbacks it has       *)
(* pending on the host's single-threaded event loop.                       *)
(*                                                                         *)
(* Step indices are 0-based as in the source; StepAt(i) reads steps[i].    *)
(* A DOM element is named by the index of the step whose selector finds    *)
(* it; None stands for null.                                               *)
(***************************************************************************)
EXTENDS Integers, Sequences, FiniteSets, TLC

\* ------------------------------------------------------------------ bounds
MaxNav == 2        \* goTo invocations that reach processStep in one run
MaxStarts == 2     \* activations in one run
MaxEvents == 1     \* raw resize and scroll events in one run
MaxMoves == 2      \* animation frames that see scroll movement, in the scroll-wait scenario

\* --------------------------------------------------------------- constants
None == -1
SettledChecks == 3     \* consecutiveChecks > 3 resolves the scroll wait
gap == 12              \* positionTooltip: distance between target and panel
safeAreaPadding == 10  \* defaultOptions.safeAreaPadding

\* ---------------------------------------------------------------- geometry
\* what positionTooltip reads: window.innerWidth/innerHeight, the target's
\* bounding rect and the cached panel size.  Sizes are even, so the halves
\* that positionTooltip takes are whole numbers.
SurfaceSizes == {100, 160}
TargetOrigins == {0, 30, 60}
TargetSizes == {20, 60}
PanelSizes == {20, 40}

Layout(vpW, vpH, left, top, width, height, tw, th) ==
    [vpW |-> vpW, vpH |-> vpH,
     rect |-> [left |-> left, top |-> top, width |-> width, height |-> height,
               right |-> left + width, bottom |-> top + height],
     tooltipWidth |-> tw, tooltipHeight |-> th]

Layouts ==
    {Layout(vpW, vpH, left, top, width, height, tw, th) :
        vpW \in SurfaceSizes, vpH \in SurfaceSizes,
        left \in TargetOrigins, top \in TargetOrigins,
        width \in TargetSizes, height \in TargetSizes,
        tw \in PanelSizes, th \in PanelSizes}

\* a target centred vertically on the taller surface: the bottom and top
\* candidates have the same score
SymmetricLayouts ==
    {Layout(vpW, 160, left, 60, width, 40, tw, th) :
        vpW \in SurfaceSizes, left \in TargetOrigins, width \in TargetSizes,
        tw \in PanelSizes, th \in PanelSizes}

\* a target that covers the whole surface
FullSurfaceLayouts ==
    {Layout(vpW, vpH, 0, 0, vpW, vpH, tw, th) :
        vpW \in SurfaceSizes, vpH \in SurfaceSizes,
        tw \in PanelSizes, th \in PanelSizes}

\* a panel whose content makes it as tall as the smaller surface (the style
\* sheet bounds the panel's width, not its height)
TallPanelLayouts ==
    {Layout(vpW, vpH, left, top, 20, 20, tw, 100) :
        vpW \in SurfaceSizes, vpH \in SurfaceSizes,
        left \in TargetOrigins, top \in TargetOrigins, tw \in PanelSizes}

\* target {left 100, top 500, width 50, height 30}, panel 200 x 100,
\* surface 800 x 600
ExampleLayout == Layout(800, 600, 100, 500, 50, 30, 200, 100)

PlaceLayouts ==
    Layouts \cup SymmetricLayouts \cup FullSurfaceLayouts \cup TallPanelLayouts
        \cup {ExampleLayout}

\* the layout of the navigation scenarios
DefaultLayout == Layout(160, 160, 60, 60, 20, 20, 40, 20)

\* the panel element has no inline top/left
NoStyle == [top |-> None, left |-> None]

\* ----------------------------------------------------------- positionTooltip
\* faulty variant: the candidates touch the target, no gap
positions_noGap(l) ==
    <<[name |-> "bottom",
       top |-> l.rect.bottom,
       left |-> l.rect.left + l.rect.width \div 2 - l.tooltipWidth \div 2,
       score |-> l.vpH - (l.rect.bottom + l.tooltipHeight)],
      [name |-> "top",
       top |-> l.rect.top - l.tooltipHeight,
       left |-> l.rect.left + l.rect.width \div 2 - l.tooltipWidth \div 2,
       score |-> l.rect.top - l.tooltipHeight],
      [name |-> "right",
       top |-> l.rect.top + l.rect.height \div 2 - l.tooltipHeight \div 2,
       left |-> l.rect.right,
       score |-> l.vpW - (l.rect.right + l.tooltipWidth)],
      [name |-> "left",
       top |-> l.rect.top + l.rect.height \div 2 - l.tooltipHeight \div 2,
       left |-> l.rect.left - l.tooltipWidth,
       score |-> l.rect.left - l.tooltipWidth]>>

positions(l) ==
    <<[name |-> "bottom",
       top |-> l.rect.bottom + gap,
       left |-> l.rect.left + l.rect.width \div 2 - l.tooltipWidth \div 2,
       score |-> l.vpH - (l.rect.bottom + gap + l.tooltipHeight)],
      [name |-> "top",
       top |-> l.rect.top - l.tooltipHeight - gap,
       left |-> l.rect.left + l.rect.width \div 2 - l.tooltipWidth \div 2,
       score |-> l.rect.top - l.tooltipHeight - gap],
      [name |-> "right",
       top |-> l.rect.top + l.rect.height \div 2 - l.tooltipHeight \div 2,
       left |-> l.rect.right + gap,
       score |-> l.vpW - (l.rect.right + gap + l.tooltipWidth)],
      [name |-> "left",
       top |-> l.rect.top + l.rect.height \div 2 - l.tooltipHeight \div 2,
       left |-> l.rect.left - l.tooltipWidth - gap,
       score |-> l.rect.left - l.tooltipWidth - gap]>>

currentTooltipRect(l, pos) ==
    [top |-> pos.top, left |-> pos.left,
     right |-> pos.left + l.tooltipWidth, bottom |-> pos.top + l.tooltipHeight]

overlapsTarget(l, pos) ==
    LET r == currentTooltipRect(l, pos)
    IN ~(\/ r.right < l.rect.left
         \/ r.left > l.rect.right
         \/ r.bottom < l.rect.top
         \/ r.top > l.rect.bottom)

fitsX(l, pos) ==
    pos.left >= safeAreaPadding /\ pos.left + l.tooltipWidth <= l.vpW - safeAreaPadding
fitsY(l, pos) ==
    pos.top >= safeAreaPadding /\ pos.top + l.tooltipHeight <= l.vpH - safeAreaPadding

\* bestPosition = null: no candidate chosen yet, maxScore is -Infinity
NoPosition == [name |-> "none", top |-> 0, left |-> 0, score |-> 0]

\* faulty variant: an equal score replaces the best so far
RECURSIVE fitLoop_lastWins(_, _, _)
fitLoop_lastWins(l, ps, best) ==
    IF ps = <<>> THEN best
    ELSE LET pos == Head(ps)
         IN IF /\ fitsX(l, pos) /\ fitsY(l, pos) /\ ~overlapsTarget(l, pos)
               /\ (best.name = "none" \/ pos.score >= best.score)
            THEN fitLoop_lastWins(l, Tail(ps), pos)
            ELSE fitLoop_lastWins(l, Tail(ps), best)

\* the first loop: candidates that fit and do not overlap, strictly better
\* score replaces the best so far
RECURSIVE fitLoop(_, _, _)
fitLoop(l, ps, best) ==
    IF ps = <<>> THEN best
    ELSE LET pos == Head(ps)
         IN IF /\ fitsX(l, pos) /\ fitsY(l, pos) /\ ~overlapsTarget(l, pos)
               /\ (best.name = "none" \/ pos.score > best.score)
            THEN fitLoop(l, Tail(ps), pos)
            ELSE fitLoop(l, Tail(ps), best)

\* faulty variant: the fallback takes the first candidate
fallbackLoop_first(l, ps, best) == IF ps = <<>> THEN best ELSE Head(ps)

\* the fallback loop: the most spacious candidate, whatever it overlaps
RECURSIVE fallbackLoop(_, _, _)
fallbackLoop(l, ps, best) ==
    IF ps = <<>> THEN best
    ELSE LET pos == Head(ps)
         IN IF best.name = "none" \/ pos.score > best.score
            THEN fallbackLoop(l, Tail(ps), pos)
            ELSE fallbackLoop(l, Tail(ps), best)

\* faulty variant: the first candidate that fits is taken, whatever its score
bestPosition_firstFit(l) ==
    LET ps == positions(l)
        ok == {k \in 1 .. 4 : fitsX(l, ps[k]) /\ fitsY(l, ps[k])
                                /\ ~overlapsTarget(l, ps[k])}
    IN IF ok = {} THEN fallbackLoop(l, ps, NoPosition)
       ELSE ps[CHOOSE k \in ok : \A j \in ok : k <= j]

\* faulty variant: the most spacious candidate, whether it fits or not
bestPosition_mostSpace(l) == fallbackLoop(l, positions(l), NoPosition)

bestPosition(l) ==
    LET fit == fitLoop(l, positions(l), NoPosition)
    IN IF fit.name = "none" THEN fallbackLoop(l, positions(l), NoPosition)
       ELSE fit

Max(a, b) == IF a >= b THEN a ELSE b
Min(a, b) == IF a <= b THEN a ELSE b

\* faulty variant: the clamp keeps twice the safe area free
clamp_doublePadding(l, pos) ==
    [top |-> Max(2 * safeAreaPadding,
                 Min(pos.top, l.vpH - l.tooltipHeight - 2 * safeAreaPadding)),
     left |-> Max(2 * safeAreaPadding,
                  Min(pos.left, l.vpW - l.tooltipWidth - 2 * safeAreaPadding))]

\* faulty variant: the chosen candidate is applied as it is
clamp_none(l, pos) == [top |-> pos.top, left |-> pos.left]

\* the clamped top/left that positionTooltip writes to the panel's style
clamp(l, pos) ==
    [top |-> Max(safeAreaPadding,
                 Min(pos.top, l.vpH - l.tooltipHeight - safeAreaPadding)),
     left |-> Max(safeAreaPadding,
                  Min(pos.left, l.vpW - l.tooltipWidth - safeAreaPadding))]

\* ------------------------------------------------------------------- steps
Welcome(cls) == [isWelcome |-> TRUE, found |-> FALSE, cond |-> TRUE, className |-> cls]
Anchored(found, cond, cls) ==
    [isWelcome |-> FALSE, found |-> found, cond |-> cond, className |-> cls]

validA == Anchored(TRUE, TRUE, "a")
validB == Anchored(TRUE, TRUE, "b")
missing == Anchored(FALSE, TRUE, "")
hiddenByCondition == Anchored(TRUE, FALSE, "c")

SkipList == <<validA, missing, validB>>
StepLists == { SkipList, <<Welcome(""), hiddenByCondition, validB>> }
\* the lists of the skip scenario: the middle step is skipped for either reason
SkipLists == { SkipList, <<validA, hiddenByCondition, validB>> }

VARIABLES
    \* the tour object
    steps, onBeforeStep, isActive, currentStep, container, eventHandlers,
    originalElement, previousStepClassName, tooltipDimensions, defaultTheme,
    allowClose, keyboardNavigation,
    \* the visual surface
    containerVisible, overlayVisible, highlighterVisible, highlightAt,
    tooltipVisible, tooltipClasses, isWelcomeClass, tooltipContent,
    styleSheet, listeners, viewport, surfaceTheme, layout, tooltipStyle,
    \* the event loop
    awaiting, settleQ, rafQ, resizeTimers, scrollTimers, teardowns,
    \* observation: the last operation, what it fired, and counters
    op, fired, navs, starts, exits, skips, torn, lastAssign, lastAfter,
    overlapped, events

vars == <<steps, onBeforeStep, isActive, currentStep, container, eventHandlers,
          originalElement, previousStepClassName, tooltipDimensions,
          containerVisible, overlayVisible, highlighterVisible, highlightAt,
          tooltipVisible, tooltipClasses, isWelcomeClass, tooltipContent,
          styleSheet, listeners, viewport,
          awaiting, settleQ, rafQ, resizeTimers, scrollTimers, teardowns,
          op, fired, navs, starts, exits, skips, torn, lastAssign,
          lastAfter, overlapped, events, defaultTheme, surfaceTheme,
          layout, tooltipStyle, allowClose, keyboardNavigation>>

World ==
    [steps |-> steps, onBeforeStep |-> onBeforeStep, isActive |-> isActive,
     currentStep |-> currentStep, container |-> container,
     eventHandlers |-> eventHandlers, originalElement |-> originalElement,
     previousStepClassName |-> previousStepClassName,
     tooltipDimensions |-> tooltipDimensions,
     containerVisible |-> containerVisible, overlayVisible |-> overlayVisible,
     highlighterVisible |-> highlighterVisible, highlightAt |-> highlightAt,
     tooltipVisible |-> tooltipVisible, tooltipClasses |-> tooltipClasses,
     isWelcomeClass |-> isWelcomeClass, tooltipContent |-> tooltipContent,
     styleSheet |-> styleSheet, listeners |-> listeners, viewport |-> viewport,
     awaiting |-> awaiting, settleQ |-> settleQ, rafQ |-> rafQ,
     resizeTimers |-> resizeTimers, scrollTimers |-> scrollTimers,
     teardowns |-> teardowns,
     op |-> op, fired |-> fired, navs |-> navs, starts |-> starts,
     exits |-> exits, skips |-> skips, torn |-> torn,
     lastAssign |-> lastAssign, lastAfter |-> lastAfter,
     overlapped |-> overlapped, events |-> events,
     defaultTheme |-> defaultTheme, surfaceTheme |-> surfaceTheme,
     layout |-> layout, tooltipStyle |-> tooltipStyle,
     allowClose |-> allowClose, keyboardNavigation |-> keyboardNavigation]

Apply(w) ==
    /\ steps' = w.steps
    /\ onBeforeStep' = w.onBeforeStep
    /\ isActive' = w.isActive
    /\ currentStep' = w.currentStep
    /\ container' = w.container
    /\ eventHandlers' = w.eventHandlers
    /\ originalElement' = w.originalElement
    /\ previousStepClassName' = w.previousStepClassName
    /\ tooltipDimensions' = w.tooltipDimensions
    /\ containerVisible' = w.containerVisible
    /\ overlayVisible' = w.overlayVisible
    /\ highlighterVisible' = w.highlighterVisible
    /\ highlightAt' = w.highlightAt
    /\ tooltipVisible' = w.tooltipVisible
    /\ tooltipClasses' = w.tooltipClasses
    /\ isWelcomeClass' = w.isWelcomeClass
    /\ tooltipContent' = w.tooltipContent
    /\ styleSheet' = w.styleSheet
    /\ listeners' = w.listeners
    /\ viewport' = w.viewport
    /\ awaiting' = w.awaiting
    /\ settleQ' = w.settleQ
    /\ rafQ' = w.rafQ
    /\ resizeTimers' = w.resizeTimers
    /\ scrollTimers' = w.scrollTimers
    /\ teardowns' = w.teardowns
    /\ op' = w.op
    /\ fired' = w.fired
    /\ navs' = w.navs
    /\ starts' = w.starts
    /\ exits' = w.exits
    /\ skips' = w.skips
    /\ torn' = w.torn
    /\ lastAssign' = w.lastAssign
    /\ lastAfter' = w.lastAfter
    /\ overlapped' = w.overlapped
    /\ events' = w.events
    /\ defaultTheme' = w.defaultTheme
    /\ surfaceTheme' = w.surfaceTheme
    /\ layout' = w.layout
    /\ tooltipStyle' = w.tooltipStyle
    /\ allowClose' = w.allowClose
    /\ keyboardNavigation' = w.keyboardNavigation

\* ----------------------------------------------------------------- helpers
Ev(name, a, b, c) == [ev |-> name, a |-> a, b |-> b, c |-> c]
Fire(w, e) == [w EXCEPT !.fired = Append(@, e)]
TypeError == Ev("TypeError", None, None, None)
\* op records a call that the tour's state alone would not show
Recorded == {"exit", "finish"}
Begin(w, name) ==
    [w EXCEPT !.op = IF name \in Recorded THEN name ELSE "", !.fired = <<>>]

StepCount(w) == Len(w.steps)
StepAt(w, i) == w.steps[i + 1]
Pending(w) == w.awaiting # {} \/ w.settleQ # <<>> \/ w.rafQ # <<>>

\* document.querySelector(step.selector): a welcome step has no selector
querySelector(w, i) ==
    IF ~StepAt(w, i).isWelcome /\ StepAt(w, i).found THEN i ELSE None

\* ------------------------------------------------------- lifecycle: exit
\* exit(): guard, deactivate, hide the surface, schedule the teardown, onExit
exit_body(w) ==
    Fire([w EXCEPT !.isActive = FALSE,
                   !.containerVisible = FALSE,
                   !.teardowns = @ + 1,
                   !.exits = @ + 1],
         Ev("onExit", None, None, None))

\* faulty variant: exit() without its isActive guard
exit_unguarded(w) == exit_body(w)

exit(w) == IF ~w.isActive THEN w ELSE exit_body(w)

\* faulty variant: finish() that exits before it reports
finish_exitFirst(w) ==
    IF ~w.isActive THEN w ELSE Fire(exit(w), Ev("onFinish", None, None, None))

\* finish(): guard, onFinish, then exit
finish(w) ==
    IF ~w.isActive THEN w
    ELSE exit(Fire(w, Ev("onFinish", None, None, None)))

\* the callback exit() hands to setTimeout: it reads this.elements and
\* this.eventHandlers when it runs
teardown(w) ==
    [w EXCEPT !.container = IF @ = "null" THEN "null" ELSE "removed",
              !.styleSheet = FALSE,
              !.listeners = @ \ {w.eventHandlers},
              !.teardowns = @ - 1,
              !.torn = @ + 1]

\* ------------------------------------------------------------- rendering
\* measureTooltipDimensions(): caches the size the panel has at the current
\* viewport width and leaves the panel without its 'visible' class
measureTooltipDimensions(w) ==
    Fire([w EXCEPT !.tooltipDimensions = w.viewport,
                   !.tooltipStyle = NoStyle,
                   !.tooltipVisible = FALSE],
         Ev("measureTooltipDimensions", None, None, None))

\* positionTooltip(targetRect)
positionTooltip(w) ==
    [w EXCEPT !.tooltipStyle = clamp(w.layout, bestPosition(w.layout))]

\* updatePositions(): highlight the target of steps[currentStep], or hide it
updatePositions(w) ==
    IF w.originalElement = None THEN [w EXCEPT !.highlighterVisible = FALSE]
    ELSE IF w.currentStep = None THEN Fire(w, TypeError)
    ELSE IF querySelector(w, w.currentStep) = None
         THEN [w EXCEPT !.highlighterVisible = FALSE]
    ELSE positionTooltip([w EXCEPT !.highlightAt = w.currentStep,
                                   !.highlighterVisible = TRUE])

addClass(classes, cls) == IF cls = "" THEN classes ELSE classes \cup {cls}

\* showWelcomeStep(step)
showWelcomeStep(w, i) ==
    [w EXCEPT !.originalElement = None,
              !.overlayVisible = TRUE,
              !.tooltipContent = i,
              !.isWelcomeClass = TRUE,
              !.tooltipClasses = addClass(@, StepAt(w, i).className),
              !.previousStepClassName = StepAt(w, i).className,
              !.tooltipVisible = TRUE]

\* updateTooltipContent(step)
updateTooltipContent(w, i) ==
    [w EXCEPT !.tooltipContent = i, !.isWelcomeClass = FALSE]

\* showSelectorStep after its scroll-settle wait has resolved
showSelectorStep_reveal(w, i) ==
    LET w1 == updateTooltipContent([w EXCEPT !.overlayVisible = FALSE], i)
        w2 == [w1 EXCEPT !.tooltipClasses = addClass(@, StepAt(w, i).className),
                         !.previousStepClassName = StepAt(w, i).className]
    IN [updatePositions(w2) EXCEPT !.tooltipVisible = TRUE]

\* processStep after `await this.show...Step(...)`: onAfterStep
onAfterStep(w, p) ==
    Fire([w EXCEPT !.lastAfter = p.seq],
         Ev("onAfterStep", w.currentStep, p.idx, w.originalElement))

\* showSelectorStep up to its scroll-settle wait: the first check() runs
\* inside the promise executor
showSelectorStep(w, p) ==
    LET w1 == [w EXCEPT !.originalElement = querySelector(w, p.idx)]
    IN IF ~w1.isActive
       THEN onAfterStep(showSelectorStep_reveal(w1, p.idx), p)
       ELSE [w1 EXCEPT !.rafQ = Append(@, [seq |-> p.seq, idx |-> p.idx,
                                           checks |-> 1, fresh |-> TRUE])]

\* ------------------------------------------------------------ processStep
\* processStep after `await onBeforeStep`: hide, then the settle delay
processStep_hide(w, p) ==
    Fire([w EXCEPT !.tooltipVisible = FALSE,
                   !.highlighterVisible = FALSE,
                   !.settleQ = Append(@, p)],
         Ev("hide", p.idx, p.seq, None))

\* faulty variant: the upper bound off by one
InBounds_offByOne(w, i) == i >= 0 /\ i <= StepCount(w)

InBounds(w, i) == i >= 0 /\ i < StepCount(w)

\* faulty variant: the hide and the settle delay do not wait for onBeforeStep
processStep_eager(w, p) ==
    IF ~w.isActive \/ ~InBounds(w, p.idx) THEN finish(w)
    ELSE Fire(processStep_hide(w, p), Ev("onBeforeStep", p.idx, None, None))

\* processStep up to its first suspension
processStep(w, p) ==
    IF ~w.isActive \/ ~InBounds(w, p.idx) THEN finish(w)
    ELSE LET w1 == Fire(w, Ev("onBeforeStep", p.idx, None, None))
         IN IF w.onBeforeStep = "async"
            THEN [w1 EXCEPT !.awaiting = @ \cup {p}]
            ELSE processStep_hide(w1, p)

\* faulty variant: the skip warns and returns without processing the next index
skipStep_stall(w, p) ==
    Fire([w EXCEPT !.skips = @ + 1], Ev("skipped", p.idx, None, None))

\* faulty variant: onAfterStep is fired for the skipped step as well
skipStep_reported(w, p) ==
    processStep(onAfterStep(Fire([w EXCEPT !.skips = @ + 1],
                                 Ev("skipped", p.idx, None, None)), p),
                [p EXCEPT !.idx = @ + 1])

\* faulty variant: the skip continues with the index before the skipped one
skipStep_backward(w, p) ==
    processStep(Fire([w EXCEPT !.skips = @ + 1], Ev("skipped", p.idx, None, None)),
                [p EXCEPT !.idx = @ - 1])

\* processStep's skip branch: the diagnostic, then processStep(stepIndex + 1)
skipStep(w, p) ==
    processStep(Fire([w EXCEPT !.skips = @ + 1], Ev("skipped", p.idx, None, None)),
                [p EXCEPT !.idx = @ + 1])

\* processStep after the settle delay
processStep_resume(w, p) ==
    LET w1 == [w EXCEPT !.tooltipClasses = @ \ {w.previousStepClassName},
                        !.currentStep = p.idx,
                        !.lastAssign = p.seq]
    IN IF p.idx >= StepCount(w) THEN Fire(w1, TypeError)
       ELSE IF StepAt(w, p.idx).isWelcome
            THEN onAfterStep(showWelcomeStep(w1, p.idx), p)
       ELSE IF querySelector(w, p.idx) = None \/ ~StepAt(w, p.idx).cond
            THEN skipStep(w1, p)
       ELSE showSelectorStep(w1, p)

\* faulty variant: the wait never counts a sample as settled
check_forever(w, e, moved) ==
    IF ~w.isActive THEN onAfterStep(showSelectorStep_reveal(w, e.idx), e)
    ELSE [w EXCEPT !.rafQ = Append(@, [e EXCEPT !.checks = 0, !.fresh = FALSE])]

\* faulty variant: movement does not reset the count
check_noReset(w, e, moved) ==
    IF ~w.isActive THEN onAfterStep(showSelectorStep_reveal(w, e.idx), e)
    ELSE IF e.checks + 1 > SettledChecks
         THEN onAfterStep(showSelectorStep_reveal(w, e.idx), e)
    ELSE [w EXCEPT !.rafQ = Append(@, [e EXCEPT !.checks = @ + 1,
                                                !.fresh = FALSE])]

\* one check() of the scroll-settle wait, run from requestAnimationFrame
check(w, e, moved) ==
    IF ~w.isActive THEN onAfterStep(showSelectorStep_reveal(w, e.idx), e)
    ELSE LET c == IF moved THEN 0 ELSE e.checks + 1
         IN IF c > SettledChecks
            THEN onAfterStep(showSelectorStep_reveal(w, e.idx), e)
            ELSE [w EXCEPT !.rafQ = Append(@, [e EXCEPT !.checks = c,
                                                        !.fresh = FALSE])]

\* one animation frame: every registered callback runs, in registration order
RECURSIVE runFrame(_, _, _, _)
runFrame(w, q, moved, movedFresh) ==
    IF q = <<>> THEN w
    ELSE runFrame(check(w, Head(q), IF Head(q).fresh THEN movedFresh ELSE moved),
                  Tail(q), moved, movedFresh)

\* ------------------------------------------------------------- public API
\* goTo(stepIndex)
goTo(w, stepIndex) ==
    IF ~w.isActive THEN w
    ELSE processStep([w EXCEPT !.navs = @ + 1,
                               !.overlapped = @ \/ Pending(w)],
                     [seq |-> w.navs + 1, idx |-> stepIndex])

\* faulty variant: the destination follows the target of the transition in
\* flight instead of currentStep
next_afterPending(w) ==
    goTo(w, IF w.settleQ # <<>> THEN Head(w.settleQ).idx + 1
            ELSE IF w.awaiting # {} THEN (CHOOSE p \in w.awaiting : TRUE).idx + 1
            ELSE w.currentStep + 1)

next(w) == goTo(w, w.currentStep + 1)

\* faulty variant: prev() clamped at the first step
prev_clamped(w) == goTo(w, IF w.currentStep > 0 THEN w.currentStep - 1 ELSE 0)

prev(w) == goTo(w, w.currentStep - 1)

\* createDOMElements() with injectStyles(): a fresh surface
createDOMElements(w) ==
    Fire([w EXCEPT !.container = "attached",
                   !.containerVisible = FALSE,
                   !.overlayVisible = FALSE,
                   !.highlighterVisible = FALSE,
                   !.highlightAt = None,
                   !.tooltipVisible = FALSE,
                   !.tooltipClasses = {},
                   !.isWelcomeClass = FALSE,
                   !.tooltipContent = None,
                   !.surfaceTheme = w.defaultTheme,
                   !.tooltipStyle = NoStyle,
                   !.styleSheet = TRUE],
         Ev("createDOMElements", None, None, None))

\* setupEventListeners(): new handler closures, bound to the window
setupEventListeners(w) ==
    Fire([w EXCEPT !.eventHandlers = w.starts + 1,
                   !.listeners = @ \cup {w.starts + 1}],
         Ev("setupEventListeners", None, None, None))

\* faulty variant: step 0 is processed before onStart is fired
start_body_lateOnStart(w) ==
    LET w1 == [w EXCEPT !.isActive = TRUE]
        w2 == setupEventListeners(measureTooltipDimensions(createDOMElements(w1)))
        w3 == goTo([w2 EXCEPT !.containerVisible = TRUE, !.starts = @ + 1], 0)
    IN Fire(w3, Ev("onStart", None, None, None))

start_body(w) ==
    LET w1 == [w EXCEPT !.isActive = TRUE]
        w2 == setupEventListeners(measureTooltipDimensions(createDOMElements(w1)))
        w3 == Fire([w2 EXCEPT !.containerVisible = TRUE, !.starts = @ + 1],
                   Ev("onStart", None, None, None))
    IN goTo(w3, 0)

\* faulty variant: start() that restarts a running tour
start_restart(w) == start_body(w)

\* start(): the diagnostic when already running, else activation
start(w) ==
    IF w.isActive THEN Fire(w, Ev("warn", None, None, None)) ELSE start_body(w)

\* setTheme(themeName): applies when this.elements.container holds an element
setTheme(w, themeName) ==
    IF w.container # "null"
    THEN [w EXCEPT !.surfaceTheme = themeName, !.defaultTheme = themeName]
    ELSE Fire(w, Ev("warn", None, None, None))

\* the keydown events: a key, and the element that has the focus
Keys == <<"ArrowRight", "Enter", "ArrowLeft", "Escape", "Tab">>
Tags == <<"BODY", "INPUT", "TEXTAREA", "SELECT">>
KeyEventCount == Len(Keys) * Len(Tags) * 2
KeyEventAt(n) ==
    [key |-> Keys[((n - 1) % Len(Keys)) + 1],
     target |-> [tagName |-> Tags[(((n - 1) \div Len(Keys)) % Len(Tags)) + 1],
                 isContentEditable |-> (n - 1) \div (Len(Keys) * Len(Tags)) = 1]]

PreventDefault == Ev("preventDefault", None, None, None)

\* faulty variant: Escape exits whatever allowClose says
keydown_alwaysClose(w, e) ==
    IF \/ ~w.isActive \/ e.target.isContentEditable
       \/ e.target.tagName \in {"INPUT", "TEXTAREA", "SELECT"}
    THEN w
    ELSE LET w1 == IF e.key \in {"ArrowRight", "Enter"}
                   THEN next(Fire(w, PreventDefault)) ELSE w
             w2 == IF e.key = "ArrowLeft"
                   THEN prev(Fire(w1, PreventDefault)) ELSE w1
         IN IF e.key = "Escape" THEN exit(Fire(w2, PreventDefault)) ELSE w2

\* the keydown handler that setupEventListeners binds to the document
keydown(w, e) ==
    IF \/ ~w.isActive \/ e.target.isContentEditable
       \/ e.target.tagName \in {"INPUT", "TEXTAREA", "SELECT"}
    THEN w
    ELSE LET w1 == IF e.key \in {"ArrowRight", "Enter"}
                   THEN next(Fire(w, PreventDefault)) ELSE w
             w2 == IF e.key = "ArrowLeft"
                   THEN prev(Fire(w1, PreventDefault)) ELSE w1
         IN IF e.key = "Escape" /\ w2.allowClose
            THEN exit(Fire(w2, PreventDefault)) ELSE w2

\* the handlers bound to the document's keydown: one for every activation
\* whose listeners are still bound, when keyboardNavigation is on
keydownHandlers(w) == IF w.keyboardNavigation THEN Cardinality(w.listeners) ELSE 0

\* a keydown event reaches every bound handler, in the order they were bound
RECURSIVE dispatchKeydown(_, _, _)
dispatchKeydown(w, n, e) ==
    IF n = 0 THEN w ELSE dispatchKeydown(keydown(w, e), n - 1, e)

\* getCurrentStep(): None stands for null
getCurrentStep(w) == IF w.currentStep < 0 THEN None ELSE w.currentStep

\* faulty variant: the resize callback without its isActive guard
resizeCallback_unguarded(w) == updatePositions(measureTooltipDimensions(w))

\* the debounced resize callback
resizeCallback(w) ==
    IF w.isActive THEN updatePositions(measureTooltipDimensions(w)) ELSE w

\* the debounced scroll callback; steps[-1].isWelcome is a TypeError
scrollCallback(w) ==
    IF ~w.isActive THEN w
    ELSE IF w.currentStep = None THEN Fire(w, TypeError)
    ELSE IF ~StepAt(w, w.currentStep).isWelcome THEN updatePositions(w)
    ELSE w


\* ----------------------------------------------------------- observations
Has(f, name) == \E k \in 1 .. Len(f) : f[k].ev = name
OnFinish == Ev("onFinish", None, None, None)
OnExit == Ev("onExit", None, None, None)
Warned == Ev("warn", None, None, None)

\* what a step transition may change: the cursor and the visual surface
Visuals(w) ==
    <<w.currentStep, w.originalElement, w.previousStepClassName,
      w.overlayVisible, w.highlighterVisible, w.highlightAt, w.tooltipVisible,
      w.tooltipClasses, w.isWelcomeClass, w.tooltipContent>>
Suspended(w) == <<w.awaiting, w.settleQ, w.rafQ>>
Call(name) == Begin(World, name)

\* -------------------------------------------------------------- properties

\* C1: in every reachable state currentStep is -1 or an index of a step,
\* 0 <= currentStep < stepCount.
CurrentIndexInRange == currentStep = -1 \/ currentStep \in 0 .. (Len(steps) - 1)

\* C1 witness: the cursor has reached the last step and the tour has ended
\* and been torn down.
CursorAtLastStepAfterExit ==
    currentStep = Len(steps) - 1 /\ exits >= 1 /\ ~isActive /\ torn >= 1

\* the finish path taken from w0: onFinish then onExit and nothing else fired,
\* the tour inactive, no transition started and no step shown
TakesFinishPath(w0, w) ==
    /\ w.fired = <<OnFinish, OnExit>>
    /\ ~w.isActive
    /\ w.exits = w0.exits + 1
    /\ Suspended(w) = Suspended(w0)
    /\ Visuals(w) = Visuals(w0)

\* C2: on an active tour goTo(-1), goTo(stepCount), prev() at step 0 and
\* next() at the last step take the finish path: onFinish fires, the tour
\* becomes inactive, no fault is raised and no step is shown.
BoundsTermination ==
    isActive =>
        /\ TakesFinishPath(World, goTo(Call("goTo"), -1))
        /\ TakesFinishPath(World, goTo(Call("goTo"), Len(steps)))
        /\ currentStep = 0 => TakesFinishPath(World, prev(Call("prev")))
        /\ currentStep = Len(steps) - 1 => TakesFinishPath(World, next(Call("next")))

\* C2 witness: a navigation call (not finish()) has just ended the tour
\* through the finish path while step 0 was the current step.
NavigationFinished ==
    /\ ~isActive /\ op = "" /\ fired = <<OnFinish, OnExit>>
    /\ currentStep = 0 /\ tooltipContent = 0

\* C3 (as stated): every step that deactivates the tour, through finish or
\* exit, leaves currentStep at the inactive sentinel -1.
DeactivationResetsIndex == [][(isActive /\ ~isActive') => currentStep' = -1]_vars

\* C4: start() on an active tour changes nothing: the only effect is the
\* diagnostic; onStart is not fired and no transition is started.
StartWhileActiveIgnored ==
    isActive => start(Call("start")) = [Call("start") EXCEPT !.fired = <<Warned>>]

\* C4 witness: start() was called on an active tour with a transition pending.
StartedTwice == isActive /\ fired = <<Warned>> /\ Pending(World)

\* C5: exit() on an inactive tour changes no state, and over any run onExit
\* has fired once per ended activation and one teardown was scheduled per
\* onExit.
ExitIdempotent ==
    /\ ~isActive => exit(Call("exit")) = Call("exit")
    /\ exits = teardowns + torn
    /\ starts = exits + (IF isActive THEN 1 ELSE 0)

\* C5 witness: exit() was called again after the tour had been exited.
ExitedTwice == op = "exit" /\ fired = <<>> /\ ~isActive /\ exits = 1 /\ teardowns = 1

\* C6: finish() on an active tour fires onFinish, then onExit, once each, and
\* leaves the tour inactive; on an inactive tour it fires nothing; whenever
\* onFinish fires it is directly followed by the onExit that ends the step.
FinishFiresThenExits ==
    /\ isActive =>
        LET w == finish(Call("finish"))
        IN w.fired = <<OnFinish, OnExit>> /\ ~w.isActive /\ w.exits = exits + 1
    /\ ~isActive => finish(Call("finish")) = Call("finish")
    /\ \A k \in 1 .. Len(fired) :
        fired[k] = OnFinish =>
            /\ k + 1 = Len(fired)
            /\ fired[k + 1] = OnExit
            /\ ~isActive

\* C6 witness: finish() was called on an active tour.
FinishCalled == op = "finish" /\ fired = <<OnFinish, OnExit>> /\ ~isActive

\* C8 (as stated): a continuation resumed while the tour is inactive does
\* not assign currentStep, does not change the visual surface and does not
\* fire onAfterStep.
CooperativeCancellation ==
    [][(~isActive /\ ~isActive' /\ Suspended(World)' # Suspended(World))
         => (Visuals(World)' = Visuals(World) /\ ~Has(fired', "onAfterStep"))]_vars

\* C9 (as stated): transitions assign currentStep and fire onAfterStep in
\* the order their goTo calls were invoked, also when a goTo is invoked
\* while an earlier transition is suspended.
InvocationOrder == [][lastAssign' >= lastAssign /\ lastAfter' >= lastAfter]_vars

\* C9 (amended): as long as no goTo has been invoked while an earlier
\* transition was suspended, every suspended transition is the latest
\* invoked one and nothing later has assigned or revealed; once it has
\* completed on an active tour, it is the one that assigned currentStep and
\* fired onAfterStep last, and the panel shows steps[currentStep].
SequentialOrder ==
    ~overlapped =>
        /\ \A p \in awaiting : p.seq = navs /\ lastAssign <= navs /\ lastAfter < navs
        /\ \A k \in 1 .. Len(settleQ) :
              settleQ[k].seq = navs /\ lastAssign <= navs /\ lastAfter < navs
        /\ \A k \in 1 .. Len(rafQ) :
              rafQ[k].seq = navs /\ lastAssign = navs /\ lastAfter < navs
        /\ (isActive /\ ~Pending(World)) =>
              /\ lastAssign = navs
              /\ lastAfter = navs
              /\ currentStep >= 0
              /\ tooltipContent = currentStep

\* C9 witness: a second navigation, invoked after the first had completed,
\* has completed in turn.
SecondNavigationShown ==
    /\ ~overlapped /\ isActive /\ ~Pending(World)
    /\ navs = 2 /\ lastAfter = 2 /\ tooltipVisible

\* C10 (as stated): while the tour is active the panel carries the visual
\* class of at most one step, and a revealed panel carries no class and no
\* highlight of another step than the one it shows.
OneStepVisible ==
    isActive =>
        /\ Cardinality(tooltipClasses) <= 1
        /\ tooltipVisible =>
              /\ tooltipContent # None
              /\ tooltipClasses \subseteq {StepAt(World, tooltipContent).className}
              /\ highlighterVisible => highlightAt = tooltipContent

\* ------------------------------------------------------------------ Init
InitOptions(lists, layouts, closes, keys) ==
    /\ steps \in lists
    /\ allowClose \in closes
    /\ keyboardNavigation \in keys
    /\ layout \in layouts
    /\ tooltipStyle = NoStyle
    /\ onBeforeStep \in {"none", "async"}
    /\ isActive = FALSE
    /\ currentStep = -1
    /\ container = "null"
    /\ eventHandlers = 0
    /\ originalElement = None
    /\ previousStepClassName = ""
    /\ tooltipDimensions = 0
    /\ containerVisible = FALSE
    /\ overlayVisible = FALSE
    /\ highlighterVisible = FALSE
    /\ highlightAt = None
    /\ tooltipVisible = FALSE
    /\ tooltipClasses = {}
    /\ isWelcomeClass = FALSE
    /\ tooltipContent = None
    /\ styleSheet = FALSE
    /\ listeners = {}
    /\ viewport = 1
    /\ awaiting = {}
    /\ settleQ = <<>>
    /\ rafQ = <<>>
    /\ resizeTimers = {}
    /\ scrollTimers = {}
    /\ teardowns = 0
    /\ op = ""
    /\ fired = <<>>
    /\ navs = 0
    /\ starts = 0
    /\ exits = 0
    /\ skips = 0
    /\ torn = 0
    /\ lastAssign = 0
    /\ lastAfter = 0
    /\ overlapped = FALSE
    /\ events = 0
    /\ defaultTheme = "dark"
    /\ surfaceTheme = "none"

\* the default options: allowClose and keyboardNavigation are true
InitOf(lists, layouts) == InitOptions(lists, layouts, {TRUE}, {TRUE})

InitWith(lists) == InitOf(lists, {DefaultLayout})

Init == InitWith(StepLists)

\* --------------------------------------------------------------- actions
CallStart ==
    /\ isActive \/ (starts < MaxStarts /\ navs < MaxNav)
    /\ Apply(start(Begin(World, "start")))

CallGoTo ==
    \E i \in -1 .. Len(steps) :
        /\ ~isActive \/ navs < MaxNav
        /\ Apply(goTo(Begin(World, "goTo"), i))

CallNext ==
    /\ ~isActive \/ navs < MaxNav
    /\ Apply(next(Begin(World, "next")))

CallPrev ==
    /\ ~isActive \/ navs < MaxNav
    /\ Apply(prev(Begin(World, "prev")))

CallExit ==
    \E w \in {exit(Begin(World, "exit"))} : Apply(w)

CallFinish ==
    \E w \in {finish(Begin(World, "finish"))} : Apply(w)

\* the pending operation returned by onBeforeStep completes
BeforeStepDone ==
    \E p \in awaiting :
        Apply(processStep_hide(
                 [Begin(World, "beforeStepDone") EXCEPT !.awaiting = @ \ {p}], p))

\* the settle timer fires; equal delays fire in the order they were set
SettleTimer ==
    /\ settleQ # <<>>
    /\ Apply(processStep_resume(
                [Begin(World, "settleTimer")
                    EXCEPT !.settleQ = Tail(@)], Head(settleQ)))

\* an animation frame; moved: the scroll offset changed by 2 or more since
\* the previous frame, movedFresh: since a wait that began after that frame
AnimationFrame ==
    /\ rafQ # <<>>
    /\ \E moved, movedFresh \in BOOLEAN :
        /\ movedFresh => moved
        /\ Apply(runFrame([Begin(World, "frame") EXCEPT !.rafQ = <<>>],
                          rafQ, moved, movedFresh))

\* raw resize event: the viewport changes, every bound handler re-arms its timer
RawResize ==
    /\ events < MaxEvents
    /\ \E v \in {1, 2} :
        Apply([Begin(World, "resize") EXCEPT !.viewport = v,
                                                 !.resizeTimers = listeners,
                                                 !.events = @ + 1])

\* raw scroll event: every bound handler re-arms its timer
RawScroll ==
    /\ events < MaxEvents
    /\ Apply([Begin(World, "scroll") EXCEPT !.scrollTimers = listeners,
                                                 !.events = @ + 1])

ResizeTimer ==
    \E g \in resizeTimers :
        Apply(resizeCallback(
                 [Begin(World, "resizeTimer") EXCEPT !.resizeTimers = @ \ {g}]))

ScrollTimer ==
    \E g \in scrollTimers :
        Apply(scrollCallback(
                 [Begin(World, "scrollTimer") EXCEPT !.scrollTimers = @ \ {g}]))

TeardownTimer ==
    /\ teardowns > 0
    /\ Apply(teardown(Begin(World, "teardownTimer")))

Next ==
    \/ CallStart
    \/ CallGoTo
    \/ CallNext
    \/ CallPrev
    \/ CallExit
    \/ CallFinish
    \/ BeforeStepDone
    \/ SettleTimer
    \/ AnimationFrame
    \/ RawResize
    \/ RawScroll
    \/ ResizeTimer
    \/ ScrollTimer
    \/ TeardownTimer

Spec == Init /\ [][Next]_vars

\* ------------------------------------------------ the skip scenario
\* start(), then one next() once the first step is showing; timers, frames,
\* onBeforeStep completions and raw events arrive as in Spec
SkipInit == InitWith(SkipLists)

SeqStart == starts = 0 /\ CallStart

SeqNext == isActive /\ ~Pending(World) /\ navs = 1 /\ CallNext

SkipNext ==
    \/ SeqStart
    \/ SeqNext
    \/ BeforeStepDone
    \/ SettleTimer
    \/ AnimationFrame
    \/ RawResize
    \/ RawScroll
    \/ ResizeTimer
    \/ ScrollTimer

SkipSpec == SkipInit /\ [][SkipNext]_vars

\* C7 (as stated): with the middle step of [validA, skipped, validB]
\* unresolvable or rejected by its predicate, start() shows validA, next()
\* then shows validB with exactly one skip diagnostic, the tour stays
\* active, and neither the panel nor the highlight is ever revealed for the
\* skipped step.
SkipPropagation ==
    /\ starts = 1 => isActive
    /\ (navs = 1 /\ ~Pending(World)) =>
          currentStep = 0 /\ tooltipContent = 0 /\ skips = 0
    /\ (navs = 2 /\ ~Pending(World)) =>
          currentStep = 2 /\ tooltipContent = 2 /\ skips = 1
    /\ tooltipContent # 1
    /\ currentStep = 1 => ~tooltipVisible
    /\ highlighterVisible => highlightAt # 1

\* ------------------------------------------------ properties, continued
\* the panel content and the highlight, if any, are those of steps[currentStep]
ShowsCurrent(w) ==
    /\ w.tooltipContent = w.currentStep
    /\ w.highlighterVisible => w.highlightAt = w.currentStep

\* the return scenario: an anchored step followed by a welcome step, every
\* operation and event of Next
ReturnList == <<validA, Welcome("")>>
ReturnInit == InitWith({ReturnList})
ReturnSpec == ReturnInit /\ [][Next]_vars

\* C11 (as stated, for the runs in which no goTo was invoked while an
\* earlier transition was suspended): whenever the tour is active and no
\* transition is pending, the panel content and the highlighted target, if
\* any, are those of steps[currentStep].
SoleSourceOfTruth ==
    (~overlapped /\ isActive /\ ~Pending(World)) => ShowsCurrent(World)

\* the transitions that wait at their settle delay
Settling(q) == {q[k] : k \in 1 .. Len(q)}

\* C12: a call that starts an in-bounds transition to j invokes
\* onBeforeStep(j) first; the panel and highlight are hidden for a transition
\* only directly after its onBeforeStep was invoked or, when onBeforeStep
\* returned a pending operation, in the step that completes that operation;
\* a settle delay begins only with such a hide, and currentStep is assigned
\* only when the settle delay of the assigning transition has elapsed.
BeforeStepGatesTransition ==
    [][/\ isActive =>
            \A j \in 0 .. (Len(steps) - 1) :
                LET w == goTo(Call("goTo"), j)
                IN /\ Head(w.fired) = Ev("onBeforeStep", j, None, None)
                   /\ onBeforeStep = "async" =>
                         /\ Visuals(w) = Visuals(World)
                         /\ w.settleQ = settleQ
                         /\ [seq |-> navs + 1, idx |-> j] \in w.awaiting
       /\ \A k \in 1 .. Len(fired') :
            fired'[k].ev = "hide" =>
                LET p == [seq |-> fired'[k].b, idx |-> fired'[k].a]
                IN IF onBeforeStep = "async"
                   THEN p \in awaiting /\ p \notin awaiting'
                   ELSE k > 1 /\ fired'[k - 1] = Ev("onBeforeStep", p.idx, None, None)
       /\ \A p \in Settling(settleQ') \ Settling(settleQ) :
            \E k \in 1 .. Len(fired') : fired'[k] = Ev("hide", p.idx, p.seq, None)
       /\ (currentStep' # currentStep \/ lastAssign' # lastAssign) =>
            /\ settleQ # <<>>
            /\ Head(settleQ) \notin awaiting
            /\ currentStep' = Head(settleQ).idx
            /\ lastAssign' = Head(settleQ).seq
      ]_vars

\* C12 witness: with step 0 showing, the pending operation returned by
\* onBeforeStep for a second transition has completed and the panel has
\* just been hidden for it.
AwaitedBeforeStepCompleted ==
    /\ onBeforeStep = "async" /\ isActive /\ currentStep = 0
    /\ \E k \in 1 .. Len(fired) : fired[k].ev = "hide" /\ fired[k].b = 2
    /\ settleQ # <<>> /\ ~tooltipVisible

OnStart == Ev("onStart", None, None, None)

\* C13: start() on an inactive tour leaves the tour active with the surface
\* constructed, the panel measured and the listeners bound, having done, in
\* this order: construct, measure, bind, onStart (once), onBeforeStep(0); it
\* fires no onAfterStep; and onStart is fired by nothing else.
StartSequence ==
    /\ ~isActive =>
        LET w == start(Call("start"))
        IN /\ w.isActive /\ w.containerVisible /\ w.starts = starts + 1
           /\ w.container = "attached" /\ w.styleSheet
           /\ w.tooltipDimensions = viewport
           /\ w.eventHandlers \in w.listeners /\ w.eventHandlers \notin listeners
           /\ Len(w.fired) >= 5
           /\ SubSeq(w.fired, 1, 5) =
                 <<Ev("createDOMElements", None, None, None),
                   Ev("measureTooltipDimensions", None, None, None),
                   Ev("setupEventListeners", None, None, None),
                   OnStart,
                   Ev("onBeforeStep", 0, None, None)>>
           /\ \A k \in 1 .. Len(w.fired) : w.fired[k] = OnStart => k = 4
           /\ ~Has(w.fired, "onAfterStep")
           /\ [seq |-> navs + 1, idx |-> 0] \in w.awaiting \cup Settling(w.settleQ)
    /\ \A k \in 1 .. Len(fired) :
          fired[k] = OnStart => k = 4 /\ isActive /\ Pending(World)
    /\ Has(fired, "onAfterStep") => starts >= 1 /\ ~Has(fired, "onStart")

\* C13 witness: a second activation has just been started.
Restarted == isActive /\ starts = 2 /\ Has(fired, "onStart") /\ exits = 1

\* C14 (as stated): exit() on an active tour deactivates, hides the surface
\* and fires onExit at once while the elements, the style sheet and the
\* listeners stay in place until the teardown timer fires; and every exit's
\* teardown does happen: once no teardown timer is pending, the only
\* listeners bound and the only surface attached are those of a tour that is
\* active.
ExitDefersTeardown ==
    /\ isActive =>
        LET w == exit(Call("exit"))
        IN /\ ~w.isActive /\ ~w.containerVisible /\ w.fired = <<OnExit>>
           /\ w.container = container /\ w.styleSheet = styleSheet
           /\ w.listeners = listeners
           /\ w.teardowns = teardowns + 1
    /\ teardowns = 0 =>
        /\ listeners = IF isActive THEN {eventHandlers} ELSE {}
        /\ container = "attached" <=> isActive

\* ------------------------------------------- the scroll-wait scenario
\* one activation, navigation and exit at any time; the scroll position
\* moves in at most MaxMoves frames and then stays
QuietFrame ==
    /\ rafQ # <<>>
    /\ Apply(runFrame([Begin(World, "frame") EXCEPT !.rafQ = <<>>],
                      rafQ, FALSE, FALSE))

MovingFrame ==
    /\ rafQ # <<>>
    /\ events < MaxMoves
    /\ \E movedFresh \in BOOLEAN :
        Apply(runFrame([Begin(World, "frame") EXCEPT !.rafQ = <<>>,
                                                     !.events = @ + 1],
                       rafQ, TRUE, movedFresh))

WaitNext ==
    \/ SeqStart
    \/ CallGoTo
    \/ CallExit
    \/ BeforeStepDone
    \/ SettleTimer
    \/ QuietFrame
    \/ MovingFrame
    \/ TeardownTimer

WaitSpec == Init /\ [][WaitNext]_vars

\* one frame without movement, and the sample of one wait in a frame
quietFrame(w) == runFrame([w EXCEPT !.rafQ = <<>>], w.rafQ, FALSE, FALSE)
sample(e, moved) == check([Call("frame") EXCEPT !.rafQ = <<>>], e, moved)

\* C15 (as stated): the wait resolves only when four consecutive per-frame
\* samples were quiet: a wait that has just begun on an active tour is still
\* pending after three frames without movement.
FourFrameSamples ==
    (isActive /\ rafQ # <<>> /\ rafQ[Len(rafQ)].fresh) =>
        quietFrame(quietFrame(quietFrame(World))).rafQ # <<>>

\* C15 (amended): the count of a wait starts at 1 with the sample taken when
\* the wait begins; a sample on an active tour resolves the wait exactly when
\* it is quiet and the count was 3, a quiet sample otherwise adds one and a
\* sample that sees movement resets the count to 0; a sample on an inactive
\* tour resolves the wait; hence every pending wait has resolved after four
\* frames without movement, and after one frame once the tour was exited.
ScrollWaitSettles ==
    /\ (\A k \in 1 .. Len(rafQ) :
            LET e == rafQ[k]
                q == sample(e, FALSE)
                m == sample(e, TRUE)
            IN /\ e.checks \in 0 .. SettledChecks
               /\ e.fresh => e.checks = 1
               /\ (q.rafQ = <<>>) <=> (~isActive \/ e.checks = SettledChecks)
               /\ q.rafQ # <<>> =>
                     q.rafQ = <<[e EXCEPT !.checks = @ + 1, !.fresh = FALSE]>>
               /\ (m.rafQ = <<>>) <=> ~isActive
               /\ m.rafQ # <<>> =>
                     m.rafQ = <<[e EXCEPT !.checks = 0, !.fresh = FALSE]>>
               /\ q.rafQ = <<>> => q.lastAfter = e.seq /\ q.tooltipContent = e.idx)
    /\ quietFrame(quietFrame(quietFrame(quietFrame(World)))).rafQ = <<>>
    /\ ~isActive =>
          \A moved \in BOOLEAN :
              runFrame([World EXCEPT !.rafQ = <<>>], rafQ, moved, moved).rafQ = <<>>

\* C15 witness: a wait has resolved on an active tour after frames that saw
\* movement, and its step is revealed.
SettledAfterMovement ==
    /\ isActive /\ rafQ = <<>> /\ events = MaxMoves
    /\ Has(fired, "onAfterStep") /\ tooltipVisible /\ highlighterVisible

\* C16: a step in which a debounce timer fires on an inactive tour measures
\* nothing, positions nothing and changes no part of the visual surface.
DebounceIgnoredWhenInactive ==
    [][(/\ ~isActive
        /\ events' = events
        /\ resizeTimers' # resizeTimers \/ scrollTimers' # scrollTimers)
       => /\ Visuals(World)' = Visuals(World)
          /\ tooltipDimensions' = tooltipDimensions
          /\ containerVisible' = containerVisible
          /\ fired' = <<>>]_vars

\* C16 witness: a resize arrived after the panel was measured, its timer has
\* fired, and the tour was inactive by then: the cached size is still the
\* one measured before the resize.
ResizeTimerFiredInactive ==
    /\ ~isActive /\ exits = 1 /\ torn = 0 /\ listeners # {}
    /\ events = 1 /\ viewport = 2 /\ tooltipDimensions = 1
    /\ resizeTimers = {}

\* C17 (as stated): at most one debounce timer of each kind is pending at
\* any time, so that the events of a burst end in one recomputation.
DebounceCoalesced ==
    /\ Cardinality(resizeTimers) <= 1
    /\ Cardinality(scrollTimers) <= 1

\* C18 (as stated): no step raises an unhandled fault; in particular the
\* debounced scroll callback never fires on an active tour whose currentStep
\* is not an index of a step.
NoUnhandledFault == ~Has(fired, "TypeError")

\* ------------------------------------------------- the theme scenario
\* activations, exits and setTheme calls in any order, with the timers and
\* frames that let the first step appear
Themes == {"dark", "light"}

CallSetTheme ==
    \E t \in Themes : Apply(setTheme(Begin(World, "setTheme"), t))

ThemeNext ==
    \/ CallStart
    \/ CallSetTheme
    \/ CallExit
    \/ BeforeStepDone
    \/ SettleTimer
    \/ QuietFrame
    \/ TeardownTimer

ThemeSpec == Init /\ [][ThemeNext]_vars

\* C19 (as stated): a step taken while the tour is not activated, before
\* the first start or after an exit, leaves the default theme and the
\* surface theme unchanged; setTheme(name) on an active tour sets both.
ThemeIgnoredUnlessActive ==
    [][/\ (~isActive /\ ~isActive') =>
            defaultTheme' = defaultTheme /\ surfaceTheme' = surfaceTheme
       /\ isActive =>
            \A t \in Themes :
                LET w == setTheme(Call("setTheme"), t)
                IN w.surfaceTheme = t /\ w.defaultTheme = t
      ]_vars

\* ---------------------------------------------- the placement scenario
\* every layout of PlaceLayouts, and positionTooltip applied to it
PlaceInit == InitOf({SkipList}, PlaceLayouts)

Place ==
    /\ tooltipStyle = NoStyle
    /\ Apply(positionTooltip(Begin(World, "positionTooltip")))

PlaceSpec == PlaceInit /\ [][Place]_vars

\* a candidate fits within the safe area and does not overlap the target
Acceptable(l, pos) == fitsX(l, pos) /\ fitsY(l, pos) /\ ~overlapsTarget(l, pos)

\* C20: the four candidates are bottom, top, right and left with the
\* coordinates and scores of the placement formulas (gap 12), and whenever
\* one of them fits and does not overlap, the panel is placed at a candidate
\* that fits, does not overlap, and has the highest score among those.
PlacementPicksBestFit ==
    LET l == layout
        t == l.rect
        centerX == t.left + t.width \div 2
        centerY == t.top + t.height \div 2
        ps == positions(l)
    IN /\ ps = <<[name |-> "bottom", top |-> t.bottom + 12,
                  left |-> centerX - l.tooltipWidth \div 2,
                  score |-> l.vpH - (t.bottom + 12 + l.tooltipHeight)],
                 [name |-> "top", top |-> t.top - l.tooltipHeight - 12,
                  left |-> centerX - l.tooltipWidth \div 2,
                  score |-> t.top - l.tooltipHeight - 12],
                 [name |-> "right", top |-> centerY - l.tooltipHeight \div 2,
                  left |-> t.right + 12,
                  score |-> l.vpW - (t.right + 12 + l.tooltipWidth)],
                 [name |-> "left", top |-> centerY - l.tooltipHeight \div 2,
                  left |-> t.left - l.tooltipWidth - 12,
                  score |-> t.left - l.tooltipWidth - 12]>>
       /\ (tooltipStyle # NoStyle /\ \E k \in 1 .. 4 : Acceptable(l, ps[k])) =>
            \E k \in 1 .. 4 :
                /\ Acceptable(l, ps[k])
                /\ \A j \in 1 .. 4 : Acceptable(l, ps[j]) => ps[j].score <= ps[k].score
                /\ bestPosition(l) = ps[k]
                /\ tooltipStyle = [top |-> ps[k].top, left |-> ps[k].left]

\* C20 witness: the panel was placed where several candidates were
\* acceptable and the first of them, bottom, did not have the highest score.
PlacedAwayFromFirstFit ==
    LET ps == positions(layout)
    IN /\ tooltipStyle # NoStyle
       /\ Acceptable(layout, ps[1])
       /\ \E k \in 2 .. 4 : Acceptable(layout, ps[k]) /\ ps[k].score > ps[1].score
       /\ tooltipStyle # [top |-> ps[1].top, left |-> ps[1].left]

\* the candidates the selection compares: those that fit and do not overlap,
\* or all four when there is none (the fallback)
Considered(l) ==
    LET ok == {k \in 1 .. 4 : Acceptable(l, positions(l)[k])}
    IN IF ok = {} THEN 1 .. 4 ELSE ok

\* positionTooltip has written the panel's top and left
Placed == tooltipStyle # NoStyle

\* C21: whenever two or more considered candidates share the highest score,
\* the one earliest in the order bottom, top, right, left is selected; in
\* particular, when bottom and top are both valid with the same highest
\* score, bottom is selected.
TieBreakFirstInOrder ==
    LET l == layout
        ps == positions(l)
        K == Considered(l)
        top == {k \in K : \A j \in K : ps[j].score <= ps[k].score}
        first == CHOOSE k \in top : \A j \in top : k <= j
    IN Placed =>
        /\ <<ps[1].name, ps[2].name, ps[3].name, ps[4].name>>
             = <<"bottom", "top", "right", "left">>
        /\ bestPosition(l) = ps[first]
        /\ tooltipStyle = clamp(l, ps[first])
        /\ (Acceptable(l, ps[1]) /\ Acceptable(l, ps[2]) /\ {1, 2} \subseteq top)
             => /\ bestPosition(l).name = "bottom"
                /\ tooltipStyle = [top |-> ps[1].top, left |-> ps[1].left]

\* C21 witness: the panel was placed below a vertically centred target, where
\* bottom and top both fit, do not overlap and share the highest score.
SymmetricPlacedAtBottom ==
    LET ps == positions(layout)
    IN /\ Placed
       /\ Acceptable(layout, ps[1]) /\ Acceptable(layout, ps[2])
       /\ ps[1].score = ps[2].score
       /\ \A k \in Considered(layout) : ps[k].score <= ps[1].score
       /\ tooltipStyle = [top |-> ps[1].top, left |-> ps[1].left]
       /\ tooltipStyle # [top |-> ps[2].top, left |-> ps[2].left]

\* C22: when no candidate both fits and avoids the target, no fault is raised
\* and the panel is placed at a candidate with the highest score among all
\* four, clamped.
FallbackHighestScore ==
    LET l == layout
        ps == positions(l)
    IN (Placed /\ \A k \in 1 .. 4 : ~Acceptable(l, ps[k])) =>
        /\ ~Has(fired, "TypeError")
        /\ \E k \in 1 .. 4 :
            /\ \A j \in 1 .. 4 : ps[j].score <= ps[k].score
            /\ bestPosition(l) = ps[k]
            /\ tooltipStyle = clamp(l, ps[k])

\* C22 witness: the panel was placed for a target that covers the whole
\* surface, at a candidate other than the first.
FullSurfaceTargetPlaced ==
    /\ Placed
    /\ layout \in FullSurfaceLayouts
    /\ \A k \in 1 .. 4 : ~Acceptable(layout, positions(layout)[k])
    /\ bestPosition(layout).name # "bottom"

\* the interval [safe, size - panel - safe] of one axis
InSafeRange(x, size, panel) ==
    x >= safeAreaPadding /\ x <= size - panel - safeAreaPadding

\* C23 (as stated): for every target, panel and surface size, the applied
\* left lies in [safeAreaPadding, surfaceWidth - panelWidth - safeAreaPadding]
\* and the applied top in the same range of the vertical axis.
FinalClampInRange ==
    Placed =>
        /\ InSafeRange(tooltipStyle.left, layout.vpW, layout.tooltipWidth)
        /\ InSafeRange(tooltipStyle.top, layout.vpH, layout.tooltipHeight)

\* C23: on each axis where the panel and both paddings fit in the surface,
\* the applied coordinate lies in [safeAreaPadding, surface - panel -
\* safeAreaPadding]; on an axis where they do not, it is safeAreaPadding.
FinalClampWhereRoom ==
    LET l == layout
        roomX == l.tooltipWidth + 2 * safeAreaPadding <= l.vpW
        roomY == l.tooltipHeight + 2 * safeAreaPadding <= l.vpH
    IN Placed =>
        /\ IF roomX THEN InSafeRange(tooltipStyle.left, l.vpW, l.tooltipWidth)
                    ELSE tooltipStyle.left = safeAreaPadding
        /\ IF roomY THEN InSafeRange(tooltipStyle.top, l.vpH, l.tooltipHeight)
                    ELSE tooltipStyle.top = safeAreaPadding

\* C23 witness: the panel was placed after the fallback, and the clamp moved
\* it on both axes into the safe range.
ClampedOnBothAxes ==
    LET best == bestPosition(layout)
    IN /\ Placed
       /\ \A k \in 1 .. 4 : ~Acceptable(layout, positions(layout)[k])
       /\ tooltipStyle.left # best.left /\ tooltipStyle.top # best.top
       /\ InSafeRange(tooltipStyle.left, layout.vpW, layout.tooltipWidth)
       /\ InSafeRange(tooltipStyle.top, layout.vpH, layout.tooltipHeight)

\* C24 (as stated): for the example layout the bottom candidate is chosen
\* and the panel is applied at top 542, left 75, unclamped.
ExampleChoosesBottom ==
    (Placed /\ layout = ExampleLayout) =>
        /\ bestPosition(layout).name = "bottom"
        /\ tooltipStyle = [top |-> 542, left |-> 75]

\* C24: for the example layout the bottom candidate (top 542, left 25) does
\* not fit, top and right do, and the right candidate, which has the higher
\* score, is chosen and applied at top 465, left 162, unclamped.
ExampleChoosesRight ==
    LET ps == positions(ExampleLayout)
    IN (Placed /\ layout = ExampleLayout) =>
        /\ [top |-> ps[1].top, left |-> ps[1].left] = [top |-> 542, left |-> 25]
        /\ ~fitsY(layout, ps[1])
        /\ {k \in 1 .. 4 : Acceptable(layout, ps[k])} = {2, 3}
        /\ ps[3].score > ps[2].score
        /\ bestPosition(layout).name = "right"
        /\ tooltipStyle = [top |-> 465, left |-> 162]
        /\ tooltipStyle = [top |-> ps[3].top, left |-> ps[3].left]

\* C24 witness: the panel was placed for the example layout.
ExamplePlaced == Placed /\ layout = ExampleLayout /\ tooltipStyle.left = 162

\* the target lies fully inside the surface
TargetInside(l) ==
    /\ l.rect.left >= 0 /\ l.rect.right <= l.vpW
    /\ l.rect.top >= 0 /\ l.rect.bottom <= l.vpH

\* each side of the panel is at most a quarter of the surface's
MuchSmaller(l) == 4 * l.tooltipWidth <= l.vpW /\ 4 * l.tooltipHeight <= l.vpH

\* C25 (as stated): for a target fully inside the surface and a panel much
\* smaller than the surface, exactly one candidate fits without overlap, and
\* it is the one chosen.
ExactlyOneFits ==
    LET ps == positions(layout)
        ok == {k \in 1 .. 4 : Acceptable(layout, ps[k])}
    IN (Placed /\ TargetInside(layout) /\ MuchSmaller(layout)) =>
        /\ Cardinality(ok) = 1
        /\ \A k \in ok : bestPosition(layout) = ps[k]

\* C25: whenever exactly one candidate fits without overlapping the target,
\* that candidate is the one chosen, and it is applied unclamped.
SoleCandidateChosen ==
    LET ps == positions(layout)
        ok == {k \in 1 .. 4 : Acceptable(layout, ps[k])}
    IN (Placed /\ Cardinality(ok) = 1) =>
        \A k \in ok : /\ bestPosition(layout) = ps[k]
                      /\ tooltipStyle = [top |-> ps[k].top, left |-> ps[k].left]

\* C25 witness: the panel was placed right of a target fully inside the
\* surface, right being the only candidate that fits without overlap and not
\* the one with the most space.
SoleRightCandidatePlaced ==
    LET ps == positions(layout)
    IN /\ Placed
       /\ TargetInside(layout)
       /\ {k \in 1 .. 4 : Acceptable(layout, ps[k])} = {3}
       /\ \E k \in {1, 2, 4} : ps[k].score > ps[3].score
       /\ tooltipStyle = [top |-> ps[3].top, left |-> ps[3].left]

\* ----------------------------------------------- the keyboard scenario
\* a keydown event on the document, with any key and any focused element
KeyDown ==
    \E n \in 1 .. KeyEventCount :
        /\ \/ ~isActive
           \/ KeyEventAt(n).key \notin {"ArrowRight", "Enter", "ArrowLeft"}
           \/ navs + keydownHandlers(World) <= MaxNav
        /\ Apply(dispatchKeydown(
                    Fire(Begin(World, "keydown"), Ev("keydown", n, None, None)),
                    keydownHandlers(World), KeyEventAt(n)))

\* tours constructed with either value of allowClose and keyboardNavigation
KeyInit == InitOptions(StepLists, {DefaultLayout}, BOOLEAN, BOOLEAN)

KeyNext ==
    \/ SeqStart
    \/ KeyDown
    \/ BeforeStepDone
    \/ SettleTimer
    \/ QuietFrame
    \/ TeardownTimer

KeySpec == KeyInit /\ [][KeyNext]_vars

\* the focus is in an editable element
Editable(e) ==
    e.target.isContentEditable \/ e.target.tagName \in {"INPUT", "TEXTAREA", "SELECT"}

\* C26: with keyboard navigation enabled, a key event on an active tour whose
\* focus is not in an editable element has the effect of next() for
\* ArrowRight and Enter, of prev() for ArrowLeft, and of exit() for Escape
\* when allowClose is true; Escape with allowClose false, every other key,
\* every key with the focus in an editable element and every key on an
\* inactive tour change nothing; with allowClose false a key event
\* deactivates the tour only through next() or prev() running into finish().
KeyboardSurface ==
    [][(fired' # <<>> /\ fired'[1].ev = "keydown") =>
        LET e == KeyEventAt(fired'[1].a)
            w0 == Fire(Begin(World, "keydown"), fired'[1])
            handled(w) ==
                IF ~w.isActive \/ Editable(e) THEN w
                ELSE IF e.key \in {"ArrowRight", "Enter"}
                     THEN next(Fire(w, PreventDefault))
                ELSE IF e.key = "ArrowLeft" THEN prev(Fire(w, PreventDefault))
                ELSE IF e.key = "Escape" /\ allowClose
                     THEN exit(Fire(w, PreventDefault))
                ELSE w
            bound == IF keyboardNavigation THEN Cardinality(listeners) ELSE 0
        IN /\ bound = 0 => World' = w0
           /\ bound = 1 => World' = handled(w0)
           /\ bound = 2 => World' = handled(handled(w0))
           /\ (~isActive \/ Editable(e) \/ e.key = "Tab"
                 \/ (e.key = "Escape" /\ ~allowClose)) => World' = w0
           /\ (~allowClose /\ isActive /\ ~isActive') =>
                /\ e.key \in {"ArrowRight", "Enter", "ArrowLeft"}
                /\ Has(fired', "onFinish")
      ]_vars

\* C26 witness: Escape was pressed outside any editable element on an active
\* tour whose allowClose is false, with the handler bound, and the tour is
\* still active.
EscapeIgnoredWithoutAllowClose ==
    /\ fired # <<>> /\ fired[1].ev = "keydown"
    /\ KeyEventAt(fired[1].a).key = "Escape"
    /\ ~Editable(KeyEventAt(fired[1].a))
    /\ keyboardNavigation /\ listeners # {} /\ ~allowClose
    /\ isActive /\ Len(fired) = 1

\* the target that resolves for step i: none for a welcome step
ResolvedTarget(w, i) ==
    IF StepAt(w, i).isWelcome THEN None ELSE querySelector(w, i)

\* C27 (as stated, for the runs in which the tour was never exited): every
\* onAfterStep invocation receives the index of the step descriptor it
\* receives, and the target resolved for that step (none for a welcome step).
AfterStepTriple ==
    exits = 0 =>
        \A k \in 1 .. Len(fired) :
            fired[k].ev = "onAfterStep" =>
                /\ fired[k].a = fired[k].b
                /\ fired[k].c = ResolvedTarget(World, fired[k].b)

\* ------------------------------------------- the backward-skip scenario
\* step lists that begin with unresolvable steps: start() shows the first
\* step that resolves, then prev() is called once that step is showing
BackLists ==
    { <<missing, validA, validB>>,
      <<hiddenByCondition, validA, validB>>,
      <<missing, hiddenByCondition, validB>>,
      <<missing, Welcome("w"), validB>> }

BackInit == InitWith(BackLists)

SeqPrev == isActive /\ ~Pending(World) /\ navs = 1 /\ CallPrev

BackNext ==
    \/ SeqStart
    \/ SeqPrev
    \/ BeforeStepDone
    \/ SettleTimer
    \/ AnimationFrame

BackSpec == BackInit /\ [][BackNext]_vars

\* step i resolves: a welcome step, or a target that exists and passes its
\* predicate
Resolves(w, i) ==
    StepAt(w, i).isWelcome \/ (querySelector(w, i) # None /\ StepAt(w, i).cond)

\* the least index from j on whose step resolves, StepCount when there is none
RECURSIVE FirstResolving(_, _)
FirstResolving(w, j) ==
    IF j >= StepCount(w) THEN StepCount(w)
    ELSE IF Resolves(w, j) THEN j ELSE FirstResolving(w, j + 1)

\* the transitions that are suspended, at any of the three suspension points
SuspendedAt(w) ==
    w.awaiting \cup {[seq |-> q.seq, idx |-> q.idx] : q \in Settling(w.settleQ)}
               \cup {[seq |-> q.seq, idx |-> q.idx] : q \in Settling(w.rafQ)}

\* C28: a skip at index j continues with index j + 1 whatever the direction
\* of the navigation: prev() from the showing step i onto the unresolvable
\* step i - 1 processes i - 1, then i again, ends showing step i with the
\* tour active, and never processes an index below i - 1.
BackwardSkipGoesForward ==
    LET i == FirstResolving(World, 0)
    IN /\ \A k \in 1 .. Len(fired) :
            fired[k].ev = "skipped" =>
                /\ k < Len(fired)
                /\ fired[k + 1] = Ev("onBeforeStep", fired[k].a + 1, None, None)
       /\ (navs = 1 /\ ~Pending(World)) =>
            isActive /\ currentStep = i /\ tooltipContent = i /\ skips = i
       /\ navs = 2 =>
            /\ isActive
            /\ currentStep \in {i - 1, i}
            /\ \A p \in SuspendedAt(World) : p.seq = 2 /\ p.idx \in {i - 1, i}
            /\ \A k \in 1 .. Len(fired) :
                 fired[k].ev = "onBeforeStep" => fired[k].a \in {i - 1, i}
       /\ (navs = 2 /\ ~Pending(World)) =>
            /\ currentStep = i /\ tooltipContent = i
            /\ ~StepAt(World, i).isWelcome =>
                 highlighterVisible /\ highlightAt = i
            /\ skips = i + 1

\* C28 witness: prev() was called while step i was showing, the step before
\* it was skipped, and step i is showing again.
ShownAgainAfterPrev ==
    LET i == FirstResolving(World, 0)
    IN /\ navs = 2 /\ ~Pending(World) /\ isActive
       /\ i >= 1 /\ skips = i + 1
       /\ currentStep = i /\ tooltipContent = i /\ tooltipVisible
       /\ fired # <<>> /\ fired[Len(fired)].ev = "onAfterStep"

\* --------------------------------------------- the single-goTo scenario
\* start(), then one goTo(j) with any j once the first step is showing;
\* onBeforeStep completes, frames see scroll movement a bounded number of times
GoLists == StepLists \cup { <<validA, missing, hiddenByCondition>> }

GoInit == InitWith(GoLists)

SeqGoTo == isActive /\ ~Pending(World) /\ navs = 1 /\ CallGoTo

GoNext ==
    \/ SeqStart
    \/ SeqGoTo
    \/ BeforeStepDone
    \/ SettleTimer
    \/ QuietFrame
    \/ MovingFrame
    \/ TeardownTimer

GoSpec == GoInit /\ [][GoNext]_vars

\* the event loop run while scrolling has stopped: the pending onBeforeStep
\* completes, the settle timer fires, a frame without movement passes; at
\* most n turns
RECURSIVE quietRun(_, _)
quietRun(w, n) ==
    IF n = 0 \/ ~Pending(w) THEN w
    ELSE IF w.awaiting # {}
         THEN LET p == CHOOSE q \in w.awaiting : TRUE
              IN quietRun(processStep_hide([w EXCEPT !.awaiting = @ \ {p}], p), n - 1)
    ELSE IF w.settleQ # <<>>
         THEN quietRun(processStep_resume([w EXCEPT !.settleQ = Tail(@)],
                                          Head(w.settleQ)), n - 1)
    ELSE quietRun(quietFrame(w), n - 1)

\* turns that suffice for one transition: onBeforeStep and the settle delay
\* for every step, then the frames of one scroll wait
Turns(w) == 2 * StepCount(w) + SettledChecks + 1

\* the transition has ended in showing step k, or in finish when k is past
\* the last step
EndsAt(r, k) ==
    /\ ~Pending(r)
    /\ IF k < StepCount(r)
       THEN /\ r.isActive /\ r.currentStep = k
            /\ r.tooltipContent = k /\ r.tooltipVisible
       ELSE ~r.isActive /\ Has(r.fired, "onFinish")

\* the index from which the transitions now suspended search forward: a
\* transition in its scroll wait has already resolved its step
SearchFrom(w) ==
    IF w.rafQ # <<>> THEN Head(w.rafQ).idx
    ELSE IF w.settleQ # <<>> THEN Head(w.settleQ).idx
    ELSE (CHOOSE q \in w.awaiting : TRUE).idx

\* C29 (as stated): a single goTo(j), for any j, ends in showing the least
\* step k >= j that resolves, or in finish when there is none.
GoToReachesLeastResolving ==
    (isActive /\ ~Pending(World) /\ navs = 1) =>
        \A j \in -1 .. Len(steps) :
            EndsAt(quietRun(goTo(Call("goTo"), j), Turns(World)),
                   FirstResolving(World, Max(j, 0)))

\* C29: a single goTo(j) with 0 <= j terminates once onBeforeStep has
\* completed and scrolling has stopped: it ends in showing the least step
\* k >= j that resolves, or in finish when there is none; goTo(j) with j < 0
\* ends in finish.  Whatever movement the frames have seen so far, the
\* transition in flight ends that way within the turns of one transition.
GoToTerminates ==
    /\ (isActive /\ ~Pending(World) /\ navs = 1) =>
        /\ \A j \in 0 .. Len(steps) :
             EndsAt(quietRun(goTo(Call("goTo"), j), Turns(World)),
                    FirstResolving(World, j))
        /\ EndsAt(quietRun(goTo(Call("goTo"), -1), Turns(World)), Len(steps))
    /\ (navs = 2 /\ Pending(World)) =>
        /\ Cardinality(SuspendedAt(World)) = 1
        /\ EndsAt(quietRun(World, Turns(World)),
                  FirstResolving(World, SearchFrom(World)))
    /\ (navs = 2 /\ ~Pending(World)) =>
        \/ ~isActive /\ exits = 1
        \/ /\ isActive /\ Resolves(World, currentStep)
           /\ tooltipContent = currentStep /\ tooltipVisible

\* C29 witness: goTo(1) was called on [validA, missing, validB], the frames
\* saw scroll movement, and the transition has ended showing step 2.
GoToEndedPastSkippedStep ==
    /\ steps = SkipList /\ navs = 2 /\ ~Pending(World) /\ isActive
    /\ skips = 1 /\ events >= 1
    /\ currentStep = 2 /\ tooltipContent = 2 /\ tooltipVisible
    /\ fired # <<>> /\ fired[Len(fired)].ev = "onAfterStep"

\* a welcome step is showing: the tour is active, no transition is pending,
\* steps[currentStep] is the welcome variant and the panel shows it
WelcomeShowing(w) ==
    /\ w.isActive /\ ~Pending(w)
    /\ w.currentStep >= 0 /\ StepAt(w, w.currentStep).isWelcome
    /\ w.tooltipContent = w.currentStep

\* C30 (as stated, for the runs without overlapping navigation and without
\* exit): whenever a welcome step is showing, no resolved target is retained
\* and the highlight is not visible.
WelcomeNonAnchored ==
    (~overlapped /\ exits = 0 /\ WelcomeShowing(World)) =>
        originalElement = None /\ ~highlighterVisible

\* C31 (as stated): when start() was called again before the teardown of an
\* exit fires, the new session's surface, style sheet and listeners are still
\* in place after that teardown has run.
TeardownSparesNewSession ==
    [][(torn' = torn + 1 /\ isActive) =>
          /\ isActive'
          /\ container' = "attached"
          /\ styleSheet'
          /\ eventHandlers' \in listeners'
      ]_vars

\* ------------------------------------------- the double-next scenario
\* step lists whose steps all resolve; start(), then next() once step 0 is
\* showing, then a second next() before the first one's transition has
\* assigned currentStep
DoubleLists ==
    { <<validA, validB, validA>>, <<Welcome("w"), validA, validB>> }

DoubleInit == InitWith(DoubleLists)

SecondNext ==
    /\ isActive /\ navs = 2 /\ lastAssign < 2
    /\ Apply(next(Begin(World, "next")))

DoubleNext ==
    \/ SeqStart
    \/ SeqNext
    \/ SecondNext
    \/ BeforeStepDone
    \/ SettleTimer
    \/ AnimationFrame

DoubleSpec == DoubleInit /\ [][DoubleNext]_vars

\* C32: a second next() issued from the showing step i before the first
\* next()'s transition has assigned currentStep targets i + 1 as the first
\* one did: both transitions process i + 1, and the tour ends showing step
\* i + 1, not i + 2.
DoubleNextSameTarget ==
    LET i == 0
    IN /\ (navs = 1 /\ ~Pending(World)) => currentStep = i /\ tooltipContent = i
       /\ navs = 3 =>
            /\ isActive
            /\ currentStep \in {i, i + 1}
            /\ \A p \in SuspendedAt(World) : p.seq \in {2, 3} /\ p.idx = i + 1
            /\ \A k \in 1 .. Len(fired) :
                 fired[k].ev \in {"onBeforeStep", "hide"} => fired[k].a = i + 1
       /\ (navs = 3 /\ ~Pending(World)) =>
            /\ currentStep = i + 1
            /\ tooltipContent = i + 1 /\ tooltipVisible
            /\ lastAssign \in {2, 3}

\* C32 witness: both next() calls were made, the second while the first was
\* suspended before its assignment, and both transitions have ended with
\* step 1 showing.
DoubleNextEndedOnNextStep ==
    /\ navs = 3 /\ overlapped /\ ~Pending(World) /\ isActive
    /\ currentStep = 1 /\ tooltipContent = 1 /\ tooltipVisible

\* C33: when the selected candidate fits, the clamp leaves its coordinates
\* unchanged; hence whenever any candidate fits without overlapping the
\* target, the applied panel rectangle lies inside the safe area and does
\* not intersect the target.
FittingCandidateUnclamped ==
    LET l == layout
        best == bestPosition(l)
    IN Placed =>
        /\ (fitsX(l, best) /\ fitsY(l, best)) =>
             tooltipStyle = [top |-> best.top, left |-> best.left]
        /\ (\E k \in 1 .. 4 : Acceptable(l, positions(l)[k])) =>
             /\ fitsX(l, tooltipStyle) /\ fitsY(l, tooltipStyle)
             /\ ~overlapsTarget(l, tooltipStyle)

\* C33 witness: the panel was placed at a candidate that touches the safe
\* area's edge, where another candidate does not fit.
PlacedAtSafeAreaEdge ==
    LET l == layout
        best == bestPosition(l)
    IN /\ Placed
       /\ Acceptable(l, best)
       /\ \E k \in 1 .. 4 : ~fitsX(l, positions(l)[k]) \/ ~fitsY(l, positions(l)[k])
       /\ tooltipStyle = [top |-> best.top, left |-> best.left]
       /\ \/ tooltipStyle.left = safeAreaPadding
          \/ tooltipStyle.left = l.vpW - l.tooltipWidth - safeAreaPadding
          \/ tooltipStyle.top = safeAreaPadding
          \/ tooltipStyle.top = l.vpH - l.tooltipHeight - safeAreaPadding

\* how often the callback or diagnostic `name` was fired for index m
Count(f, name, m) ==
    Cardinality({n \in 1 .. Len(f) : f[n].ev = name /\ f[n].a = m})

\* the events of one whole transition that began at index j: onBeforeStep
\* once for every index from j up to the step shown (or the last step),
\* the skip diagnostic once for every index before the step shown, and
\* onAfterStep once, for the step shown, if any
TransitionEvents(r, j) ==
    LET k == FirstResolving(r, j)
    IN \A m \in 0 .. StepCount(r) - 1 :
        /\ Count(r.fired, "onBeforeStep", m) = IF j <= m /\ m <= k THEN 1 ELSE 0
        /\ Count(r.fired, "skipped", m) = IF j <= m /\ m < k THEN 1 ELSE 0
        /\ Count(r.fired, "onAfterStep", m) = IF m = k THEN 1 ELSE 0

\* C34: in a sequential run onBeforeStep fires once for every in-bounds
\* index that is processed, skipped ones included, and onAfterStep fires
\* exactly once per step shown, when it is shown, never for a skipped index
\* and never in a navigation that ends in finish.
CallbacksPerStep ==
    /\ [](/\ navs = 0 =>
               TransitionEvents(quietRun(start(Call("start")), Turns(World)), 0)
          /\ (isActive /\ ~Pending(World) /\ navs = 1) =>
               /\ \A j \in 0 .. Len(steps) - 1 :
                    TransitionEvents(
                        quietRun(goTo(Call("goTo"), j), Turns(World)), j)
               /\ \A j \in {-1, Len(steps)} :
                    LET r == quietRun(goTo(Call("goTo"), j), Turns(World))
                    IN /\ ~Has(r.fired, "onBeforeStep")
                       /\ ~Has(r.fired, "onAfterStep")
                       /\ Has(r.fired, "onFinish"))
    /\ [][/\ Has(fired', "onAfterStep") =>
               /\ Pending(World) /\ ~Pending(World') /\ isActive'
               /\ ~Has(fired', "skipped") /\ ~Has(fired', "onFinish")
               /\ Resolves(World', currentStep')
               /\ tooltipContent' = currentStep' /\ tooltipVisible'
               /\ \A m \in 0 .. Len(steps) - 1 :
                    Count(fired', "onAfterStep", m)
                        = IF m = currentStep' THEN 1 ELSE 0
          /\ \A m \in 0 .. Len(steps) - 1 :
               /\ Count(fired', "onBeforeStep", m) <= 1
               /\ Count(fired', "skipped", m) = 1 =>
                    /\ ~Resolves(World, m)
                    /\ Count(fired', "onAfterStep", m) = 0
                    /\ m + 1 < Len(steps) => Count(fired', "onBeforeStep", m + 1) = 1
          /\ (Pending(World) /\ ~Pending(World') /\ isActive') =>
               Has(fired', "onAfterStep")
         ]_vars

\* C34 witness: goTo(1) on [welcome, rejected, validB] has skipped step 1
\* and shown step 2, firing onAfterStep for step 2 alone.
AfterStepFiredForShownStepOnly ==
    /\ steps[1].isWelcome /\ navs = 2 /\ skips = 1
    /\ isActive /\ ~Pending(World)
    /\ currentStep = 2 /\ tooltipContent = 2
    /\ fired = <<Ev("onAfterStep", 2, 2, 2)>>

====
